---- MODULE Spec2Model ----
(***************************************************************************)
(* Model of ActionRunner (app/lib/runtime/action-runner.ts): the action    *)
(* store, the serialized execution chain (#currentExecutionPromise), the   *)
(* dispatcher (#executeAction), the per-type strategies and the tool-call  *)
(* bridge.                                                                 *)
(*                                                                         *)
(* Strings the code inspects by prefix are sequences of tokens, so that    *)
(* message.startsWith('Error:') is a test on the first token.              *)
(***************************************************************************)
EXTENDS Integers, Sequences, FiniteSets, TLC

\* ---------------------------------------------------------------- bounds
\* Action identifiers the producer uses, and external tool-call ids.
Ids == {"a1", "a2"}
ToolCallIds == {"t1"}

\* The producer numbers its actions: the first one it registers is FirstId.
FirstId == "a1"

\* Accepted runAction calls over a run (caps the length of the chain).
MaxCommits == 2

\* ---------------------------------------------------------------- types
Types == {"shell", "npmInstall", "npmExec", "file", "build", "start", "convex", "toolUse"}

\* Action types the producer mixes within one run.
TypeGroups ==
  {{"file"}, {"shell", "start"}, {"toolUse"}, {"npmExec"}, {"npmInstall", "convex"}, {"build"}}

\* Runs in which the producer emits a single action.
SoloGroups == {{"file"}, {"npmExec"}}

ActionStatus == {"pending", "running", "complete", "aborted", "failed"}

Terminal == {"complete", "aborted", "failed"}

\* Content the producer may send for an action of a given type.  A toolUse
\* action's content is a serialized ToolInvocation (see ParseToolInvocation).
ToolContents == {"tu_partial", "tu_bash", "tu_bash_empty", "tu_unknown"}

\* Command lines the producer may send for an npmExec and an npmInstall action.
NpmExecContents == {"npm run build", "npm run dev", "npx convex dev", "ls"}

NpmInstallContents == {"npm install lodash", "npm i convex"}

ContentsOf(type) ==
  CASE type = "toolUse"    -> ToolContents
    [] type = "file"       -> {"c1", "c2"}
    [] type = "npmExec"    -> NpmExecContents
    [] type = "npmInstall" -> NpmInstallContents
    [] OTHER               -> {"c1"}

AllContents == UNION {ContentsOf(type) : type \in Types}

\* JSON.parse(action.content) for the serialized tool invocations above.
ParseToolInvocation(content) ==
  CASE content = "tu_partial" ->
         [state |-> "partial-call", toolCallId |-> "t1", toolName |-> "bash", command |-> "ls"]
    [] content = "tu_bash" ->
         [state |-> "call", toolCallId |-> "t1", toolName |-> "bash", command |-> "ls"]
    [] content = "tu_bash_empty" ->
         [state |-> "call", toolCallId |-> "t1", toolName |-> "bash", command |-> ""]
    [] content = "tu_unknown" ->
         [state |-> "call", toolCallId |-> "t1", toolName |-> "nosuchtool", command |-> ""]

\* What an awaited external call (shell.executeCommand, editor, ...) can do:
\* return a response, or reject with an error whose toString() is `text`.
Externals ==
  { [kind |-> "exit", exitCode |-> 0, output |-> "log", text |-> <<>>],
    [kind |-> "exit", exitCode |-> 1, output |-> "boom", text |-> <<>>],
    [kind |-> "exit", exitCode |-> 1, output |-> "", text |-> <<>>],
    [kind |-> "throw", exitCode |-> 0, output |-> "", text |-> <<"Error:", "io">>],
    [kind |-> "throw", exitCode |-> 0, output |-> "", text |-> <<"ZodError", "bad args">>] }

\* What the two awaited calls of #runFileAction can do: webcontainer.fs.mkdir
\* and webcontainer.fs.writeFile each return or reject.
FileOutcomes == {[mkdir |-> m, writeFile |-> w] : m \in {"ok", "throw"}, w \in {"ok", "throw"}}

\* What webcontainer.spawn('npm', ['run', 'build']) can do: the exit code and
\* the output accumulated by the time the process exits.
BuildOutcomes ==
  { [kind |-> "exit", exitCode |-> 0, output |-> "log", text |-> <<>>],
    [kind |-> "exit", exitCode |-> 0, output |-> "", text |-> <<>>],
    [kind |-> "exit", exitCode |-> 1, output |-> "boom", text |-> <<>>],
    [kind |-> "exit", exitCode |-> 1, output |-> "", text |-> <<>>] }

\* The outcomes of the external calls the strategy of an action type awaits.
OutcomesOf(type) ==
  CASE type = "file"  -> FileOutcomes
    [] type = "build" -> BuildOutcomes
    [] OTHER          -> Externals

AllOutcomes == Externals \cup FileOutcomes \cup BuildOutcomes

\* Values the external responder may resolve a pending tool call with.
ExternalValues == {<<"ext">>}

\* ---------------------------------------------------------------- state
VARIABLES
  actions,      \* this.actions: id -> ActionState (a function on the registered ids)
  aborted,      \* abortController.signal.aborted of each id's controller
  chain,        \* callbacks pending on #currentExecutionPromise, in attach order
  rejected,     \* TRUE iff the settled part of #currentExecutionPromise is rejected
  procs,        \* start actions whose #runStartAction promise is still pending
  toolCalls,    \* this.toolCalls: toolCallId -> resolvers
  alerts,       \* calls made to onAlert, in order
  commitLog,    \* history: accepted runAction calls, in call order
  dispatchLog,  \* history: commit numbers in the order #executeAction began
  calls,        \* history: how each accepted runAction call ended
  skipped,      \* history: commit numbers whose unit of work was never run
  lastCall,     \* history: the last traced call that updated content or returned early
  shellCalls,   \* history: the commands #runShellAction passed to shell.executeCommand
  buildOutput,  \* this.buildOutput
  group,        \* the action types the producer emits in this run
  fileErrors    \* history: the calls of #runFileAction whose failure was logged

vars == <<actions, aborted, chain, rejected, procs, toolCalls, alerts,
          commitLog, dispatchLog, calls, skipped, lastCall, shellCalls, buildOutput,
          group, fileErrors>>

NoSnap == [type |-> "none", content |-> "none"]

NoCall == [op |-> "none", id |-> "none"]

NoError == [kind |-> "none", header |-> "", output |-> "", text |-> <<>>]

\* this.buildOutput before any build has stored a result
NoBuildOutput == [path |-> "unset", exitCode |-> -1, output |-> "unset"]

\* nodePath.join(webcontainer.workdir, 'dist')
DistDir == "<workdir>/dist"

\* the command of a strategy that made no call to shell.executeCommand
NoCommand == <<>>

\* ---------------------------------------------------------------- helpers
\* { ...r, ...u }
Merge(r, u) == [f \in (DOMAIN r) \cup (DOMAIN u) |-> IF f \in DOMAIN u THEN u[f] ELSE r[f]]

\* map.setKey(id, value)
SetKey(acts, id, value) ==
  [i \in (DOMAIN acts) \cup {id} |-> IF i = id THEN value ELSE acts[i]]

\* updateAction(id, newState)
UpdateAction(acts, id, newState) ==
  SetKey(acts, id, IF id \in DOMAIN acts THEN Merge(acts[id], newState) ELSE newState)

RemoveAt(s, k) == SubSeq(s, 1, k - 1) \o SubSeq(s, k + 1, Len(s))

\* new ActionCommandError(message, output)
ActionCommandError(message, output) ==
  [kind |-> "ActionCommandError", header |-> message, output |-> output,
   text |-> <<"ActionCommandError:", "Failed To Execute Shell Command:", message, output>>]

\* new Error(message): toString() is "Error: " + message
GenericError(message) ==
  [kind |-> "Error", header |-> "", output |-> "", text |-> <<"Error:", message>>]

\* an error raised by an external collaborator, toString() = ext.text
ExternalError(ext) ==
  [kind |-> "Error", header |-> "", output |-> "", text |-> ext.text]

OutputRaw(output) == output

\* resp?.output || 'No Output Available'
OutputOrFallback(output) == IF output = "" THEN "No Output Available" ELSE output

Init ==
  /\ actions = [i \in {} |-> NoSnap]
  /\ aborted = [i \in Ids |-> FALSE]
  /\ chain = <<>>
  /\ rejected = FALSE
  /\ procs = {}
  /\ toolCalls = [t \in ToolCallIds |-> [gen |-> 0, resolved |-> FALSE, value |-> <<>>]]
  /\ alerts = <<>>
  /\ commitLog = <<>>
  /\ dispatchLog = <<>>
  /\ calls = <<>>
  /\ skipped = {}
  /\ lastCall = NoCall
  /\ shellCalls = <<>>
  /\ buildOutput = NoBuildOutput
  /\ group \in TypeGroups
  /\ fileErrors = {}

\* ---------------------------------------------------------------- tool-call table
\* this.toolCalls.get(id) / withResolvers() / this.toolCalls.set(id, resolvers):
\* gen counts the resolvers objects ever stored under the id (0 = no entry).
AlwaysCreate(tcs, t) ==
  [tcs EXCEPT ![t] = [gen |-> tcs[t].gen + 1, resolved |-> FALSE, value |-> <<>>]]

LookupOrCreate(tcs, t) ==
  IF tcs[t].gen = 0
    THEN [tcs EXCEPT ![t] = [gen |-> 1, resolved |-> FALSE, value |-> <<>>]]
    ELSE tcs

\* resolvers.resolve(v) on a promise: settles it unless it is already settled.
PromiseResolve(entry, v) ==
  IF entry.resolved THEN entry ELSE [entry EXCEPT !.resolved = TRUE, !.value = v]

RawToolError(text) == text

\* let message = e.toString(); if (!message.startsWith('Error:')) message = 'Error: ' + message
FormatToolError(text) ==
  IF Len(text) > 0 /\ text[1] = "Error:" THEN text ELSE <<"Error:">> \o text

Text(s) == IF s = "" THEN <<>> ELSE <<s>>

\* cleanConvexOutput(command, output) for a command other than 'npm run lint'
CleanConvexOutput(command, output) == output

\* _runShellCommand(command, onAbort)
RunShellCommand(command, ext) ==
  IF ext.kind = "throw" THEN [err |-> ExternalError(ext), result |-> <<>>]
  ELSE IF ext.exitCode # 0
    THEN [err |-> GenericError("Process exited with code"), result |-> <<>>]
    ELSE [err |-> NoError, result |-> Text(ext.output)]

\* the switch on parsed.toolName inside the try block of #runToolUseAction
ToolBody(parsed, ext) ==
  CASE parsed.toolName = "str_replace_editor" ->
         IF ext.kind = "throw"
           THEN [err |-> ExternalError(ext), result |-> <<>>]
           ELSE [err |-> NoError, result |-> Text(ext.output)]
    [] parsed.toolName = "bash" ->
         IF parsed.command = ""
           THEN [err |-> GenericError("A nonempty command is required"), result |-> <<>>]
         ELSE IF ext.kind = "throw"
           THEN [err |-> ExternalError(ext), result |-> <<>>]
         ELSE IF ext.exitCode # 0
           THEN [err |-> GenericError("Process exited with code"), result |-> <<>>]
           ELSE [err |-> NoError, result |-> Text(ext.output)]
    [] parsed.toolName = "deploy" ->
         RunShellCommand("npx convex dev --once", ext)
    [] OTHER ->
         [err |-> GenericError("Unknown tool"), result |-> <<>>]

\* #runToolUseAction(actionId, action)
RunToolUseAction(tcs, content, ext) ==
  LET parsed == ParseToolInvocation(content) IN
  IF parsed.state = "result" THEN [tcs |-> tcs, err |-> NoError]
  ELSE IF parsed.state = "partial-call"
    THEN [tcs |-> tcs, err |-> GenericError("Tool call is still in progress")]
  ELSE
    LET t    == parsed.toolCallId
        tcs1 == LookupOrCreate(tcs, t)
        body == ToolBody(parsed, ext)
    IN IF body.err = NoError
         THEN [tcs |-> [tcs1 EXCEPT ![t] = PromiseResolve(tcs1[t], body.result)],
               err |-> NoError]
         ELSE [tcs |-> [tcs1 EXCEPT ![t] = PromiseResolve(tcs1[t], FormatToolError(body.err.text))],
               err |-> body.err]

\* ---------------------------------------------------------------- strategies
\* #runShellAction(action)
RunShellAction(ext) ==
  IF ext.kind = "throw" THEN ExternalError(ext)
  ELSE IF ext.exitCode # 0
    THEN ActionCommandError("Failed To Execute Shell Command", OutputOrFallback(ext.output))
    ELSE NoError

\* #runStartAction(action)
RunStartAction(ext) ==
  IF ext.kind = "throw" THEN ExternalError(ext)
  ELSE IF ext.exitCode # 0
    THEN ActionCommandError("Failed To Start Application", OutputOrFallback(ext.output))
    ELSE NoError

\* text.startsWith(prefix), for the command lines of NpmExecContents and
\* NpmInstallContents and the prefixes the strategies test
StartsWith(text, prefix) ==
  CASE text = "npm install lodash" -> prefix \in {"npm install", "npm i"}
    [] text = "npm i convex"       -> prefix \in {"npm i"}
    [] text = "npm run build"      -> prefix \in {"npm run "}
    [] text = "npm run dev"        -> prefix \in {"npm run "}
    [] text = "npx convex dev"     -> prefix \in {"npx "}
    [] OTHER                       -> FALSE

\* text.slice(prefix.length), where text.startsWith(prefix)
SliceAfter(text, prefix) ==
  CASE text = "npm install lodash" /\ prefix = "npm install" -> " lodash"
    [] text = "npm i convex" /\ prefix = "npm i"             -> " convex"
    [] OTHER                                                 -> text

\* text.match(/\bconvex\b/)
MentionsConvex(text) == text \in {"npx convex dev", "npm i convex", " convex"}

\* #runNpmInstallAction(action): the command is a list of concatenated pieces
RunNpmInstallAction(content, ext) ==
  LET normalizedCommand ==
        IF StartsWith(content, "npm install") THEN SliceAfter(content, "npm install")
        ELSE IF StartsWith(content, "npm i") THEN SliceAfter(content, "npm i")
        ELSE content
  IN IF MentionsConvex(normalizedCommand)
       THEN [err |-> NoError, cmd |-> NoCommand]
       ELSE [err |-> RunShellAction(ext), cmd |-> <<"npm install ", normalizedCommand>>]

RunNpmExecActionUnchecked(content, ext) ==
  [err |-> RunShellAction(ext), cmd |-> <<content>>]

\* #runNpmExecAction(action)
RunNpmExecAction(content, ext) ==
  IF ~StartsWith(content, "npm run ") /\ ~StartsWith(content, "npx ")
    THEN [err |-> NoError, cmd |-> NoCommand]
  ELSE IF MentionsConvex(content)
    THEN [err |-> NoError, cmd |-> NoCommand]
  ELSE IF content = "npm run dev"
    THEN [err |-> NoError, cmd |-> NoCommand]
  ELSE [err |-> RunShellAction(ext), cmd |-> <<content>>]

RunFileActionFatal(io) ==
  IF io.mkdir = "throw"
    THEN [err |-> GenericError("mkdir failed"), attempted |-> <<"mkdir">>, logged |-> {}]
  ELSE IF io.writeFile = "throw"
    THEN [err |-> GenericError("writeFile failed"), attempted |-> <<"mkdir", "writeFile">>,
          logged |-> {}]
  ELSE [err |-> NoError, attempted |-> <<"mkdir", "writeFile">>, logged |-> {}]

\* #runFileAction(action), for a file in a folder other than '.': the failure
\* of mkdir and the failure of writeFile are each caught and logged
RunFileAction(io) ==
  [err |-> NoError,
   attempted |-> <<"mkdir", "writeFile">>,
   logged |-> {c \in {"mkdir", "writeFile"} : io[c] = "throw"}]

\* #runBuildAction(action)
RunBuildAction(ext) ==
  IF ext.exitCode # 0
    THEN [err |-> ActionCommandError("Build Failed", OutputOrFallback(ext.output)),
          result |-> NoBuildOutput]
    ELSE [err |-> NoError,
          result |-> [path |-> DistDir, exitCode |-> ext.exitCode, output |-> ext.output]]

KeepFirstBuildOutput(current, result) ==
  IF current = NoBuildOutput THEN result ELSE current

\* this.buildOutput = buildOutput
StoreBuildOutput(current, result) == result

\* the switch on action.type in #executeAction, for the awaited strategies:
\* the error thrown, the tool-call table, the command #runShellAction sent and
\* the value #runBuildAction returned
Strategy(snap, tcs, ext) ==
  CASE snap.type = "shell" ->
         [tcs |-> tcs, err |-> RunShellAction(ext), cmd |-> <<snap.content>>,
          built |-> NoBuildOutput]
    [] snap.type = "npmInstall" ->
         LET r == RunNpmInstallAction(snap.content, ext)
         IN [tcs |-> tcs, err |-> r.err, cmd |-> r.cmd, built |-> NoBuildOutput]
    [] snap.type = "npmExec" ->
         LET r == RunNpmExecAction(snap.content, ext)
         IN [tcs |-> tcs, err |-> r.err, cmd |-> r.cmd, built |-> NoBuildOutput]
    [] snap.type = "file" ->
         [tcs |-> tcs, err |-> RunFileAction(ext).err, cmd |-> NoCommand,
          built |-> NoBuildOutput, logged |-> RunFileAction(ext).logged]
    [] snap.type = "build" ->
         LET r == RunBuildAction(ext)
         IN [tcs |-> tcs, err |-> r.err, cmd |-> NoCommand, built |-> r.result]
    [] snap.type = "toolUse" ->
         LET r == RunToolUseAction(tcs, snap.content, ext)
         IN [tcs |-> r.tcs, err |-> r.err, cmd |-> NoCommand, built |-> NoBuildOutput]
    [] OTHER ->
         [tcs |-> tcs, err |-> NoError, cmd |-> NoCommand, built |-> NoBuildOutput]

\* ---------------------------------------------------------------- the chain
ReadyUnchained(ch, k) == TRUE

\* promise.then(cb): cb runs once everything attached before it has settled
Ready(ch, k) == k = 1

EnqueueFront(ch, item) == <<item>> \o ch

\* this.#currentExecutionPromise = this.#currentExecutionPromise.then(...): the
\* new callback hangs on the current tail, which becomes the promise it returns
Enqueue(ch, item) == Append(ch, item)

CatchSiteMissing(thrown) == thrown

\* .catch((error) => console.error(...)): the chained promise resolves
CatchSite(thrown) == FALSE

KnownNever(acts, id) == FALSE

\* const action = actions[actionId]; if (action) { ... return; }
Known(acts, id) == id \in DOMAIN acts

AcceptsExecuted(action, isStreaming) == ~(isStreaming /\ action.type # "file")

\* runAction's two early returns
Accepts(action, isStreaming) ==
  /\ ~action.executed
  /\ ~(isStreaming /\ action.type # "file")

ExecutedAlways(isStreaming) == TRUE

\* executed: !isStreaming
ExecutedAfter(isStreaming) == ~isStreaming

SignalRunsAction(id) ==
  [kind |-> "exec", id |-> id, streaming |-> FALSE, n |-> 0, active |-> FALSE, snap |-> NoSnap]

\* the callback of addAction: () => { this.updateAction(actionId, { status: 'running' }) }
SignalItem(id) ==
  [kind |-> "signal", id |-> id, streaming |-> FALSE, n |-> 0, active |-> FALSE, snap |-> NoSnap]

ExecItem(id, isStreaming, n) ==
  [kind |-> "exec", id |-> id, streaming |-> isStreaming, n |-> n, active |-> FALSE, snap |-> NoSnap]

StartReturnsAfterExit(ps, n) == \A p \in ps : p.n # n

\* await new Promise((resolve) => setTimeout(resolve, 2000)); return: the
\* promise of #runStartAction is not awaited
StartReturns(ps, n) == TRUE

AnyError(err) == TRUE

\* error instanceof ActionCommandError
IsActionCommandError(err) == err.kind = "ActionCommandError"

\* onAlert({ type: 'error', title: 'Dev Server Failed', description, content })
Alert(n, id, err) ==
  [n |-> n, id |-> id, title |-> "Dev Server Failed", description |-> err.header, content |-> err.output]

\* the calls lastCall keeps a record of: those on the first action, when it is a file
Traced(id) == id = FirstId /\ actions[id].type = "file"

\* ---------------------------------------------------------------- operations
\* addAction(data)
AddAction(id, type, content) ==
  IF Known(actions, id)
    THEN /\ type = actions[id].type
         /\ content \in ContentsOf(actions[id].type)
         /\ actions' = IF actions[id].content # content
                         THEN UpdateAction(actions, id, Merge(actions[id], [content |-> content]))
                         ELSE actions
         /\ lastCall' = IF Traced(id)
                          THEN [op |-> IF actions[id].content # content THEN "update" ELSE "same",
                                id |-> id]
                          ELSE lastCall
         /\ UNCHANGED <<aborted, chain, rejected, procs, toolCalls, alerts, commitLog,
                        dispatchLog, calls, skipped, shellCalls, buildOutput, group, fileErrors>>
    ELSE /\ content \in ContentsOf(type)
         /\ type \in group
         /\ id = FirstId \/ (FirstId \in DOMAIN actions /\ group \notin SoloGroups)
         /\ actions' = SetKey(actions, id, [type |-> type, content |-> content,
                                            status |-> "pending", executed |-> FALSE])
         /\ aborted' = [aborted EXCEPT ![id] = FALSE]
         /\ chain' = Enqueue(chain, SignalItem(id))
         /\ UNCHANGED <<rejected, procs, toolCalls, alerts, commitLog, dispatchLog,
                        calls, skipped, lastCall, shellCalls, buildOutput, group, fileErrors>>

\* runAction(data, isStreaming)
RunAction(id, content, isStreaming) ==
  /\ id \in DOMAIN actions
  /\ content \in ContentsOf(actions[id].type)
  /\ IF Accepts(actions[id], isStreaming)
       THEN /\ Len(commitLog) < MaxCommits
            /\ actions' = UpdateAction(actions, id,
                            Merge(Merge(actions[id], [type |-> actions[id].type, content |-> content]),
                                  [executed |-> ExecutedAfter(isStreaming)]))
            /\ chain' = Enqueue(chain, ExecItem(id, isStreaming, Len(commitLog) + 1))
            /\ commitLog' = Append(commitLog, [id |-> id, streaming |-> isStreaming])
            /\ calls' = Append(calls, "waiting")
            /\ UNCHANGED <<aborted, rejected, procs, toolCalls, alerts, dispatchLog,
                           skipped, lastCall, shellCalls, buildOutput, group, fileErrors>>
       ELSE /\ lastCall' = IF Traced(id)
                             THEN [op |-> "ignored", id |-> id]
                             ELSE lastCall
            /\ UNCHANGED <<actions, aborted, chain, rejected, procs, toolCalls, alerts,
                           commitLog, dispatchLog, calls, skipped, shellCalls, buildOutput, group, fileErrors>>

\* action.abort(): the closure stored by addAction
Abort(id) ==
  /\ id \in DOMAIN actions
  /\ aborted' = [aborted EXCEPT ![id] = TRUE]
  /\ actions' = UpdateAction(actions, id, [status |-> "aborted"])
  /\ UNCHANGED <<chain, rejected, procs, toolCalls, alerts, commitLog, dispatchLog,
                 calls, skipped, lastCall, shellCalls, buildOutput, group, fileErrors>>

\* the callback addAction attached: updateAction(actionId, { status: 'running' })
Signal(k) ==
  /\ k \in 1..Len(chain)
  /\ chain[k].kind = "signal"
  /\ Ready(chain, k)
  /\ actions' = IF rejected THEN actions
                ELSE UpdateAction(actions, chain[k].id, [status |-> "running"])
  /\ chain' = RemoveAt(chain, k)
  /\ UNCHANGED <<aborted, rejected, procs, toolCalls, alerts, commitLog, dispatchLog,
                 calls, skipped, lastCall, shellCalls, buildOutput, group, fileErrors>>

\* the callback runAction attached: #executeAction(actionId, isStreaming) up to
\* its first await (skipped when the promise it hangs on is rejected)
Dispatch(k) ==
  /\ k \in 1..Len(chain)
  /\ chain[k].kind = "exec"
  /\ ~chain[k].active
  /\ Ready(chain, k)
  /\ LET it == chain[k] IN
     IF rejected
       THEN /\ chain' = RemoveAt(chain, k)
            /\ skipped' = skipped \cup {it.n}
            /\ calls' = [calls EXCEPT ![it.n] = "rejected"]
            /\ UNCHANGED <<actions, aborted, rejected, procs, toolCalls, alerts,
                           commitLog, dispatchLog, lastCall, shellCalls, buildOutput, group, fileErrors>>
       ELSE /\ actions' = UpdateAction(actions, it.id, [status |-> "running"])
            /\ chain' = [chain EXCEPT ![k] =
                           [it EXCEPT !.active = TRUE,
                                      !.snap = [type |-> actions[it.id].type,
                                                content |-> actions[it.id].content]]]
            /\ dispatchLog' = Append(dispatchLog, it.n)
            /\ procs' = IF actions[it.id].type = "start"
                          THEN procs \cup {[id |-> it.id, n |-> it.n]}
                          ELSE procs
            /\ UNCHANGED <<aborted, rejected, toolCalls, alerts, commitLog, calls,
                           skipped, lastCall, shellCalls, buildOutput, group, fileErrors>>

\* #executeAction from the strategy's completion to its return or throw, and
\* the .catch of runAction
Finish(k, ext) ==
  /\ k \in 1..Len(chain)
  /\ chain[k].kind = "exec"
  /\ chain[k].active
  /\ chain[k].snap.type # "start"
  /\ ext \in OutcomesOf(chain[k].snap.type)
  /\ LET it  == chain[k]
         id  == it.id
         res == Strategy(it.snap, toolCalls, ext)
         err == res.err
         rethrown == err # NoError /\ ~aborted[id] /\ IsActionCommandError(err)
     IN
     /\ toolCalls' = res.tcs
     /\ actions' =
          IF err = NoError
            THEN UpdateAction(actions, id,
                   [status |-> IF it.streaming THEN "running"
                               ELSE IF aborted[id] THEN "aborted" ELSE "complete"])
          ELSE IF aborted[id] THEN actions
          ELSE UpdateAction(actions, id, [status |-> "failed", error |-> "Action failed"])
     /\ alerts' = IF rethrown THEN Append(alerts, Alert(it.n, id, err)) ELSE alerts
     /\ rejected' = IF rethrown THEN CatchSite(TRUE) ELSE FALSE
     /\ calls' = [calls EXCEPT ![it.n] = IF rejected' THEN "rejected" ELSE "returned"]
     /\ shellCalls' = IF res.cmd = NoCommand THEN shellCalls
                      ELSE Append(shellCalls, [n |-> it.n, command |-> res.cmd])
     /\ buildOutput' = IF it.snap.type = "build" /\ err = NoError
                       THEN StoreBuildOutput(buildOutput, res.built)
                       ELSE buildOutput
     /\ fileErrors' = IF it.snap.type = "file" THEN fileErrors \cup res.logged
                      ELSE fileErrors
     /\ chain' = RemoveAt(chain, k)
     /\ UNCHANGED <<aborted, procs, commitLog, dispatchLog, skipped, lastCall, group>>

\* case 'start' of #executeAction: the 2000 ms timer fires and it returns
FinishStart(k) ==
  /\ k \in 1..Len(chain)
  /\ chain[k].kind = "exec"
  /\ chain[k].active
  /\ chain[k].snap.type = "start"
  /\ StartReturns(procs, chain[k].n)
  /\ rejected' = FALSE
  /\ calls' = [calls EXCEPT ![chain[k].n] = "returned"]
  /\ chain' = RemoveAt(chain, k)
  /\ UNCHANGED <<actions, aborted, procs, toolCalls, alerts, commitLog, dispatchLog,
                 skipped, lastCall, shellCalls, buildOutput, group, fileErrors>>

\* the .then / .catch handlers on #runStartAction(action)
StartExit(p, ext) ==
  /\ p \in procs
  /\ LET err == RunStartAction(ext) IN
     /\ actions' =
          IF err = NoError THEN UpdateAction(actions, p.id, [status |-> "complete"])
          ELSE IF aborted[p.id] THEN actions
          ELSE UpdateAction(actions, p.id, [status |-> "failed", error |-> "Action failed"])
     /\ alerts' = IF err # NoError /\ ~aborted[p.id] /\ IsActionCommandError(err)
                    THEN Append(alerts, Alert(p.n, p.id, err))
                    ELSE alerts
  /\ procs' = procs \ {p}
  /\ UNCHANGED <<aborted, chain, rejected, toolCalls, commitLog, dispatchLog, calls,
                 skipped, lastCall, shellCalls, buildOutput, group, fileErrors>>

\* the external responder sharing the toolCalls map: look up or create, resolve
ExternalResolve(t, v) ==
  /\ LET tcs1 == LookupOrCreate(toolCalls, t) IN
     toolCalls' = [tcs1 EXCEPT ![t] = PromiseResolve(tcs1[t], v)]
  /\ UNCHANGED <<actions, aborted, chain, rejected, procs, alerts, commitLog,
                 dispatchLog, calls, skipped, lastCall, shellCalls, buildOutput, group, fileErrors>>

Next ==
  \/ \E id \in Ids, type \in Types, content \in AllContents :
       AddAction(id, type, content)
  \/ \E id \in Ids, content \in AllContents, s \in BOOLEAN :
       RunAction(id, content, s)
  \/ \E id \in Ids : Abort(id)
  \/ \E k \in 1..Len(chain) : Signal(k)
  \/ \E k \in 1..Len(chain) : Dispatch(k)
  \/ \E k \in 1..Len(chain), ext \in AllOutcomes : Finish(k, ext)
  \/ \E k \in 1..Len(chain) : FinishStart(k)
  \/ \E p \in procs, ext \in Externals : StartExit(p, ext)
  \/ \E t \in ToolCallIds, v \in ExternalValues : ExternalResolve(t, v)

Spec == Init /\ [][Next]_vars

\* The callbacks attached to #currentExecutionPromise run once it settles, the
\* 2000 ms timer fires, and every awaited external call returns or throws.
\* Nothing obliges the producer to call, nor a start process to exit.
\* Progress is stated for the runs of shell and start actions.
StartRunInit == Init /\ group = {"shell", "start"}

FairSpec ==
  /\ StartRunInit
  /\ [][Next]_vars
  /\ WF_vars(\E k \in 1..Len(chain) : Signal(k))
  /\ WF_vars(\E k \in 1..Len(chain) : Dispatch(k))
  /\ WF_vars(\E k \in 1..Len(chain), ext \in AllOutcomes : Finish(k, ext))
  /\ WF_vars(\E k \in 1..Len(chain) : FinishStart(k))

TypeOK ==
  /\ DOMAIN actions \subseteq Ids
  /\ \A i \in DOMAIN actions : actions[i].status \in ActionStatus /\ actions[i].type \in Types
  /\ Len(commitLog) <= MaxCommits

\* ---------------------------------------------------------------- properties
ExecItems == {k \in 1..Len(chain) : chain[k].kind = "exec"}

\* exec items whose strategy has started and not yet finished
InFlight == {k \in ExecItems : chain[k].active}

\* the unit of work of every commit made for id has run to its end
UnitsDone(id) ==
  /\ \A k \in ExecItems : chain[k].id # id
  /\ \E n \in 1..Len(commitLog) : commitLog[n].id = id

Dispatched(n) == \E j \in 1..Len(dispatchLog) : dispatchLog[j] = n

StartsWithError(text) == Len(text) > 0 /\ text[1] = "Error:"

IsCall(snap) ==
  snap.type = "toolUse" /\ ParseToolInvocation(snap.content).state = "call"

\* C1: once an action's status is complete, aborted or failed, no step changes it.
C1_TerminalIsFinal ==
  [][\A i \in DOMAIN actions :
       actions[i].status \in Terminal => actions'[i].status = actions[i].status]_vars

\* C2: at most one strategy of a non-start action is in flight at any instant.
C2_OneStrategyInFlight ==
  Cardinality({k \in InFlight : chain[k].snap.type # "start"}) <= 1

\* C2 witness: one strategy is executing while another committed action waits behind it.
C2_Witness ==
  \E k \in InFlight, j \in ExecItems :
    /\ chain[k].snap.type # "start"
    /\ j # k
    /\ ~chain[j].active
    /\ chain[j].id # chain[k].id
    /\ actions[chain[j].id].type # "start"

\* C3: #executeAction begins in the order in which the runAction calls were accepted.
C3_DispatchInCommitOrder ==
  \A j \in 1..Len(dispatchLog) : dispatchLog[j] = j

\* C3 witness: two commits were dispatched, the first of them for the action
\* that was registered second.
C3_Witness ==
  /\ Len(dispatchLog) >= 2
  /\ commitLog[1].id # FirstId
  /\ commitLog[2].id = FirstId

\* C4: the chain is never left rejected, no unit of work is skipped and no
\* accepted runAction call rejects, whatever the strategies throw.
C4_FailureDoesNotWedge ==
  /\ ~rejected
  /\ skipped = {}
  /\ \A n \in 1..Len(calls) : calls[n] # "rejected"

\* C4 witness: the first commit threw a classified error (it raised an alert),
\* its runAction call returned, and the next commit was dispatched after it.
C4_Witness ==
  /\ \E a \in 1..Len(alerts) : alerts[a].n = 1 /\ alerts[a].description = "Failed To Execute Shell Command"
  /\ calls[1] = "returned"
  /\ Dispatched(2)

\* C5: after a non-streaming commit of an id is accepted no later commit of
\* that id is accepted, no unit of work is dispatched twice, and a runAction
\* call that returns early changes nothing.
C5_CommitOnce ==
  /\ [](/\ \A n \in 1..Len(commitLog), m \in 1..Len(commitLog) :
             (n < m /\ ~commitLog[n].streaming) => commitLog[m].id # commitLog[n].id
        /\ \A i \in 1..Len(dispatchLog), j \in 1..Len(dispatchLog) :
             i # j => dispatchLog[i] # dispatchLog[j])
  /\ [][(lastCall' # lastCall /\ lastCall'.op = "ignored") =>
          UNCHANGED <<actions, aborted, chain, rejected, procs, toolCalls, alerts,
                      commitLog, dispatchLog, calls, skipped, shellCalls, buildOutput, group, fileErrors>>]_vars

\* C5 witness: a runAction call on an executed file action returned early after
\* the action's units of work had run.
C5_Witness ==
  /\ lastCall.op = "ignored"
  /\ actions[lastCall.id].executed
  /\ UnitsDone(lastCall.id)
  /\ Len(commitLog) < MaxCommits

\* C6: a tool-call entry, once created, is never replaced, and once resolved
\* keeps its value.
C6_ResolvedOnce ==
  [][\A t \in ToolCallIds :
       toolCalls[t].gen > 0 =>
         /\ toolCalls'[t].gen = toolCalls[t].gen
         /\ toolCalls[t].resolved => toolCalls'[t] = toolCalls[t]]_vars

\* C6 witness: two actions carrying the same toolCallId were both dispatched
\* to the end, one succeeding and one failing, and the future is resolved.
C6_Witness ==
  /\ DOMAIN actions = Ids
  /\ \A i \in Ids : actions[i].type = "toolUse" /\ actions[i].content = "tu_bash"
                     /\ actions[i].executed /\ UnitsDone(i)
  /\ \E i \in Ids : actions[i].status = "complete"
  /\ \E i \in Ids : actions[i].status = "failed"
  /\ toolCalls["t1"].resolved

\* the step that ends the dispatch of item k with external outcome ext, for a
\* toolUse action whose invocation state is `call`
ToolDispatchEnds(k, ext) ==
  /\ k \in InFlight
  /\ IsCall(chain[k].snap)
  /\ Len(chain') < Len(chain)
  /\ Finish(k, ext)

\* C7 as stated: when the dispatch of a `call` tool invocation ends, the future
\* is resolved with the result text, or on an exception with an `Error:`
\* message and the action is failed.
C7_Original ==
  [][\A k \in 1..Len(chain), ext \in Externals :
       ToolDispatchEnds(k, ext) =>
         LET parsed == ParseToolInvocation(chain[k].snap.content)
             t      == parsed.toolCallId
             body   == ToolBody(parsed, ext)
         IN /\ toolCalls'[t].resolved
            /\ body.err = NoError => toolCalls'[t].value = body.result
            /\ body.err # NoError =>
                 /\ StartsWithError(toolCalls'[t].value)
                 /\ actions'[chain[k].id].status = "failed"]_vars

\* C7 amended: when the dispatch ends the future is resolved; if it was still
\* unresolved it now holds the result text or, on an exception, a message
\* starting with `Error:`, and otherwise keeps its first value; on an exception
\* the action is failed unless its token had fired, and then its status is
\* left as it was.
C7_ToolCallAlwaysAnswered ==
  [][\A k \in 1..Len(chain), ext \in Externals :
       ToolDispatchEnds(k, ext) =>
         LET parsed == ParseToolInvocation(chain[k].snap.content)
             t      == parsed.toolCallId
             id     == chain[k].id
             body   == ToolBody(parsed, ext)
         IN /\ toolCalls'[t].resolved
            /\ toolCalls[t].resolved => toolCalls'[t].value = toolCalls[t].value
            /\ (~toolCalls[t].resolved /\ body.err = NoError) =>
                 toolCalls'[t].value = body.result
            /\ (~toolCalls[t].resolved /\ body.err # NoError) =>
                 StartsWithError(toolCalls'[t].value)
            /\ (body.err # NoError /\ ~aborted[id]) => actions'[id].status = "failed"
            /\ (body.err # NoError /\ aborted[id]) =>
                 actions'[id].status = actions[id].status]_vars

\* C7 witness: a tool call failed with an error whose text lacked the prefix;
\* the future holds the prefixed message and the action is failed.
C7_Witness ==
  /\ toolCalls["t1"].value = <<"Error:", "ZodError", "bad args">>
  /\ \E i \in DOMAIN actions :
       /\ actions[i].type = "toolUse"
       /\ actions[i].status = "failed"
       /\ UnitsDone(i)

\* C8: an action whose token has fired and whose unit of work has run to its
\* end has status aborted.
C8_AbortedStaysAborted ==
  \A i \in DOMAIN actions :
    (aborted[i] /\ actions[i].executed /\ actions[i].type # "start" /\ UnitsDone(i))
      => actions[i].status = "aborted"

\* a step that replaces the stored content of id without a commit being
\* accepted: the content update of addAction
ContentUpdated(id) ==
  /\ commitLog' = commitLog
  /\ id \in DOMAIN actions'
  /\ actions'[id].content # actions[id].content

\* C9: addAction on a registered id with new content changes only the content
\* of that id's state and schedules nothing; with the same content it changes
\* nothing.
C9_UpsertFrame ==
  /\ [][\A id \in DOMAIN actions :
          ContentUpdated(id) =>
            /\ DOMAIN actions' = DOMAIN actions
            /\ \A i \in DOMAIN actions : i # id => actions'[i] = actions[i]
            /\ DOMAIN actions'[id] = DOMAIN actions[id]
            /\ \A f \in DOMAIN actions[id] :
                 f # "content" => actions'[id][f] = actions[id][f]
            /\ UNCHANGED <<aborted, chain, rejected, procs, toolCalls, alerts,
                           commitLog, dispatchLog, calls, skipped, shellCalls, buildOutput, group, fileErrors>>]_vars
  /\ [][(lastCall' # lastCall /\ lastCall'.op = "same") =>
          UNCHANGED <<actions, aborted, chain, rejected, procs, toolCalls, alerts,
                      commitLog, dispatchLog, calls, skipped, shellCalls, buildOutput, group, fileErrors>>]_vars

\* C9 witness: an uncommitted action whose pending->running signal has fired
\* had its content replaced by a second addAction.
C9_Witness ==
  /\ lastCall.op = "update"
  /\ ~actions[lastCall.id].executed
  /\ actions[lastCall.id].status = "running"
  /\ \A k \in ExecItems : chain[k].id # lastCall.id

\* C10: while a non-streaming dispatch of an action is in progress the stored
\* content is the content the dispatch started with.
C10_ContentFrozen ==
  \A k \in InFlight :
    ~chain[k].streaming => actions[chain[k].id].content = chain[k].snap.content

\* the step in which runAction accepts a commit: it is appended to commitLog
CommitAccepted == Len(commitLog') = Len(commitLog) + 1

\* C11: streaming commits are accepted only for file actions; an accepted
\* streaming commit enqueues one unit of work and leaves executed false; a
\* streaming runAction on an action of another type changes nothing; executed
\* is true exactly for the actions with an accepted non-streaming commit, and
\* once true it stays true.
C11_StreamingNeverExecutes ==
  /\ [](/\ \A n \in 1..Len(commitLog) :
             commitLog[n].streaming => actions[commitLog[n].id].type = "file"
        /\ \A i \in DOMAIN actions :
             actions[i].executed <=>
               \E n \in 1..Len(commitLog) : commitLog[n].id = i /\ ~commitLog[n].streaming)
  /\ [][\A i \in DOMAIN actions : actions[i].executed => actions'[i].executed]_vars
  /\ [][(CommitAccepted /\ commitLog'[Len(commitLog')].streaming) =>
          LET n  == Len(commitLog')
              id == commitLog'[n].id
          IN /\ chain' = Append(chain, ExecItem(id, TRUE, n))
             /\ ~actions'[id].executed]_vars
  /\ [][\A id \in DOMAIN actions :
          actions[id].type # "file" =>
            \A content \in ContentsOf(actions[id].type) :
              RunAction(id, content, TRUE) => UNCHANGED vars]_vars

\* C11 witness: a streaming commit of a file action was accepted and its unit
\* of work ran to the end; the action is not executed and still running.
C11_Witness ==
  /\ Len(commitLog) >= 1
  /\ commitLog[1].streaming
  /\ UnitsDone(commitLog[1].id)
  /\ ~actions[commitLog[1].id].executed
  /\ actions[commitLog[1].id].status = "running"

\* the step that ends the dispatch of item k, an action of the given type,
\* with external outcome ext
DispatchEnds(k, type, ext) ==
  /\ k \in InFlight
  /\ chain[k].snap.type = type
  /\ Len(chain') < Len(chain)
  /\ Finish(k, ext)

\* C12: when the dispatch of a shell action whose token has not fired ends
\* with exit code 0 the action is complete and nothing is raised; with a
\* nonzero exit code the action is failed and the error raised is an
\* ActionCommandError with header "Failed To Execute Shell Command" and the
\* captured output, or "No Output Available" when that is empty.
C12_ShellExitCode ==
  [][\A k \in 1..Len(chain), ext \in Externals :
       (DispatchEnds(k, "shell", ext) /\ ~aborted[chain[k].id] /\ ext.kind = "exit") =>
         LET id == chain[k].id IN
         IF ext.exitCode = 0
           THEN /\ actions'[id].status = "complete"
                /\ alerts' = alerts
           ELSE /\ actions'[id].status = "failed"
                /\ alerts' = Append(alerts,
                     [n |-> chain[k].n, id |-> id, title |-> "Dev Server Failed",
                      description |-> "Failed To Execute Shell Command",
                      content |-> IF ext.output = "" THEN "No Output Available"
                                  ELSE ext.output])]_vars

\* C12 witness: a shell command exited nonzero with no output; the action is
\* failed and the error carried the fallback text.
C12_Witness ==
  \E a \in 1..Len(alerts) :
    /\ alerts[a].content = "No Output Available"
    /\ actions[alerts[a].id].type = "shell"
    /\ actions[alerts[a].id].status = "failed"
    /\ ~aborted[alerts[a].id]

\* the headers of the ActionCommandErrors the strategies construct
ClassifiedHeaders ==
  {"Failed To Execute Shell Command", "Failed To Start Application", "Build Failed"}

\* the action types whose strategy runs a sandbox command as such
CommandTypes == {"shell", "npmInstall", "npmExec", "start", "build"}

\* C13: every alert carries the header of an ActionCommandError and belongs to
\* a dispatch of a shell, npmInstall, npmExec, start or build action; a
\* dispatch raises at most one alert; and an alert is raised only while the
\* action's token has not fired.
C13_AlertsOnlyClassified ==
  /\ [](/\ \A a \in 1..Len(alerts) :
             /\ alerts[a].description \in ClassifiedHeaders
             /\ actions[alerts[a].id].type \in CommandTypes
             /\ Dispatched(alerts[a].n)
             /\ commitLog[alerts[a].n].id = alerts[a].id
        /\ \A a \in 1..Len(alerts), b \in 1..Len(alerts) :
             a # b => alerts[a].n # alerts[b].n)
  /\ [][alerts' # alerts =>
          /\ Len(alerts') = Len(alerts) + 1
          /\ SubSeq(alerts', 1, Len(alerts)) = alerts
          /\ ~aborted[alerts'[Len(alerts')].id]]_vars

\* C13 witness: a build exited nonzero and raised the one alert of the run,
\* while an earlier dispatch ended without one.
C13_Witness ==
  /\ Len(alerts) = 1
  /\ alerts[1].description = "Build Failed"
  /\ alerts[1].n = 2
  /\ UnitsDone(commitLog[1].id)

C15_SuccessStatus ==
  /\ [][\A k \in 1..Len(chain), ext \in AllOutcomes :
          (/\ k \in InFlight
           /\ Len(chain') < Len(chain)
           /\ Finish(k, ext)
           /\ Strategy(chain[k].snap, toolCalls, ext).err = NoError) =>
            actions'[chain[k].id].status =
              IF chain[k].streaming THEN "running"
              ELSE IF aborted[chain[k].id] THEN "aborted" ELSE "complete"]_vars
  /\ [][\A p \in procs, ext \in Externals :
          (p \notin procs' /\ StartExit(p, ext) /\ RunStartAction(ext) = NoError) =>
            actions'[p.id].status = IF aborted[p.id] THEN "aborted" ELSE "complete"]_vars
  /\ [][\A i \in DOMAIN actions :
          (aborted[i] /\ actions'[i].status = "complete") =>
            actions[i].status = "complete"]_vars

\* buildOutput is unset or the result of a build that exited with code 0
BuildOutputShape ==
  \/ buildOutput = NoBuildOutput
  \/ buildOutput.exitCode = 0 /\ buildOutput.path = DistDir

\* only the end of the dispatch of a build action changes buildOutput
BuildOutputWrittenByBuild ==
  buildOutput' # buildOutput =>
    \E k \in InFlight : chain[k].snap.type = "build" /\ Len(chain') < Len(chain)

\* the alert of a "Build Failed" ActionCommandError carrying the accumulated
\* output, or "No Output Available" when there is none
BuildFailedAlert(k, ext) ==
  [n |-> chain[k].n, id |-> chain[k].id, title |-> "Dev Server Failed",
   description |-> "Build Failed",
   content |-> IF ext.output = "" THEN "No Output Available" ELSE ext.output]

\* C16 as stated: buildOutput is unset or has exit code 0 and path
\* <workdir>/dist; a build that exits with code 0 stores its output there; a
\* build that exits nonzero leaves it unchanged and the action is failed with
\* a "Build Failed" ActionCommandError.
C16_Original ==
  /\ []BuildOutputShape
  /\ [][BuildOutputWrittenByBuild]_vars
  /\ [][\A k \in 1..Len(chain), ext \in BuildOutcomes :
          DispatchEnds(k, "build", ext) =>
            IF ext.exitCode = 0
              THEN buildOutput' = [path |-> DistDir, exitCode |-> 0, output |-> ext.output]
              ELSE /\ buildOutput' = buildOutput
                   /\ actions'[chain[k].id].status = "failed"
                   /\ Len(alerts') = Len(alerts) + 1
                   /\ alerts'[Len(alerts')] = BuildFailedAlert(k, ext)]_vars

\* C16 amended: as above, except that a build that exits nonzero marks the
\* action failed and raises the "Build Failed" alert only if the action's
\* token has not fired; if it has, status and alerts are left as they were.
C16_BuildOutputLatestSuccess ==
  /\ []BuildOutputShape
  /\ [][BuildOutputWrittenByBuild]_vars
  /\ [][\A k \in 1..Len(chain), ext \in BuildOutcomes :
          DispatchEnds(k, "build", ext) =>
            IF ext.exitCode = 0
              THEN buildOutput' = [path |-> DistDir, exitCode |-> 0, output |-> ext.output]
              ELSE /\ buildOutput' = buildOutput
                   /\ ~aborted[chain[k].id] =>
                        /\ actions'[chain[k].id].status = "failed"
                        /\ Len(alerts') = Len(alerts) + 1
                        /\ alerts'[Len(alerts')] = BuildFailedAlert(k, ext)
                   /\ aborted[chain[k].id] =>
                        /\ actions'[chain[k].id].status = actions[chain[k].id].status
                        /\ alerts' = alerts]_vars

\* C16 witness: a build succeeded and a later build failed; buildOutput still
\* holds the result of the first.
C16_Witness ==
  /\ Len(commitLog) = 2
  /\ \A n \in 1..2 : UnitsDone(commitLog[n].id)
  /\ actions[commitLog[1].id].type = "build"
  /\ actions[commitLog[1].id].status = "complete"
  /\ actions[commitLog[2].id].status = "failed"
  /\ buildOutput = [path |-> DistDir, exitCode |-> 0, output |-> "log"]

\* what the end of the dispatch of file item k does whatever mkdir and
\* writeFile did: both calls were made, their failures are logged, nothing is
\* thrown to the dispatcher or the queue and no alert is raised
FileFailuresSwallowed(k, io) ==
  /\ RunFileAction(io).err = NoError
  /\ RunFileAction(io).attempted = <<"mkdir", "writeFile">>
  /\ fileErrors' = fileErrors \cup {c \in {"mkdir", "writeFile"} : io[c] = "throw"}
  /\ alerts' = alerts
  /\ ~rejected'
  /\ calls'[chain[k].n] = "returned"
  /\ actions'[chain[k].id].status # "failed"

\* C17 as stated: whether mkdir fails, writeFile fails or both, the write is
\* attempted, nothing propagates, no alert is raised, and the action ends
\* complete, or running for a streaming commit.
C17_Original ==
  [][\A k \in 1..Len(chain), io \in FileOutcomes :
       DispatchEnds(k, "file", io) =>
         /\ FileFailuresSwallowed(k, io)
         /\ actions'[chain[k].id].status =
              IF chain[k].streaming THEN "running" ELSE "complete"]_vars

\* C17 amended: as above, and the action ends running for a streaming commit,
\* otherwise aborted if its token has fired, otherwise complete.
C17_FileBestEffort ==
  [][\A k \in 1..Len(chain), io \in FileOutcomes :
       DispatchEnds(k, "file", io) =>
         /\ FileFailuresSwallowed(k, io)
         /\ actions'[chain[k].id].status =
              IF chain[k].streaming THEN "running"
              ELSE IF aborted[chain[k].id] THEN "aborted" ELSE "complete"]_vars

\* C17 witness: in the one dispatch of the run mkdir and writeFile both
\* failed, and the file action is complete.
C17_Witness ==
  /\ fileErrors = {"mkdir", "writeFile"}
  /\ Len(commitLog) = 1
  /\ ~commitLog[1].streaming
  /\ UnitsDone(commitLog[1].id)
  /\ actions[commitLog[1].id].status = "complete"
  /\ alerts = <<>>

\* npmExec content the claim calls rejected: not starting with "npm run " or
\* "npx ", or mentioning convex as a word, or exactly the dev-server command
RejectedNpmExec(content) ==
  \/ ~(StartsWith(content, "npm run ") \/ StartsWith(content, "npx "))
  \/ MentionsConvex(content)
  \/ content = "npm run dev"

\* what the end of the dispatch of npmExec item k does but for the status:
\* rejected content makes no shell call, throws nothing and raises no alert;
\* any other content is the one command sent to the shell, as it is
NpmExecCalls(k) ==
  IF RejectedNpmExec(chain[k].snap.content)
    THEN /\ shellCalls' = shellCalls
         /\ alerts' = alerts
         /\ ~rejected'
         /\ calls'[chain[k].n] = "returned"
    ELSE shellCalls' = Append(shellCalls, [n |-> chain[k].n,
                                          command |-> <<chain[k].snap.content>>])

\* C18 as stated: a rejected npmExec action makes no shell call, throws
\* nothing, raises no alert and ends complete; other content goes to the shell
\* verbatim.
C18_Original ==
  [][\A k \in 1..Len(chain), ext \in Externals :
       DispatchEnds(k, "npmExec", ext) =>
         /\ NpmExecCalls(k)
         /\ RejectedNpmExec(chain[k].snap.content) =>
              actions'[chain[k].id].status = "complete"]_vars

\* C18 amended: as above, and a rejected npmExec action ends aborted if its
\* token has fired, otherwise complete.
C18_RejectedNpmExecIsNoOp ==
  [][\A k \in 1..Len(chain), ext \in Externals :
       DispatchEnds(k, "npmExec", ext) =>
         /\ NpmExecCalls(k)
         /\ RejectedNpmExec(chain[k].snap.content) =>
              actions'[chain[k].id].status =
                IF aborted[chain[k].id] THEN "aborted" ELSE "complete"]_vars

\* C18 witness: the dev-server command was committed as an npmExec action and
\* dispatched to the end; no shell call was made and the action is complete.
C18_Witness ==
  /\ Len(commitLog) = 1
  /\ UnitsDone(commitLog[1].id)
  /\ actions[commitLog[1].id].type = "npmExec"
  /\ actions[commitLog[1].id].content = "npm run dev"
  /\ actions[commitLog[1].id].status = "complete"
  /\ shellCalls = <<>>
  /\ alerts = <<>>

\* C19: every action with an accepted non-streaming commit, other than a
\* start action, eventually has a terminal status.
C19_EventuallyTerminal ==
  \A i \in Ids :
    (i \in DOMAIN actions /\ actions[i].executed /\ actions[i].type # "start")
      ~> (i \in DOMAIN actions /\ actions[i].status \in Terminal)

\* the commits accepted for id, and those of them whose strategy has started
CommitsOf(id) == {n \in 1..Len(commitLog) : commitLog[n].id = id}

DispatchesOf(id) == {j \in 1..Len(dispatchLog) : dispatchLog[j] \in CommitsOf(id)}

\* C20: a strategy starts only as the unit of work of an accepted runAction
\* call for the same id, at most once per accepted call; what strategies do
\* (shell calls, build output, file I/O, start processes) happens only at the
\* end of such a unit; addAction, content updates, the scheduled signal and
\* abort() start nothing.
C20_NoSideEffectsWithoutCommit ==
  /\ [](/\ \A j \in 1..Len(dispatchLog) : dispatchLog[j] \in 1..Len(commitLog)
        /\ \A i \in Ids : Cardinality(DispatchesOf(i)) <= Cardinality(CommitsOf(i))
        /\ \A p \in procs : Dispatched(p.n) /\ p.n \in CommitsOf(p.id)
        /\ \A c \in 1..Len(shellCalls) : Dispatched(shellCalls[c].n))
  /\ [][dispatchLog' # dispatchLog =>
          \E k \in ExecItems :
            /\ ~chain[k].active
            /\ chain'[k] = [chain[k] EXCEPT !.active = TRUE,
                                             !.snap = [type |-> actions[chain[k].id].type,
                                                       content |-> actions[chain[k].id].content]]
            /\ chain[k].n \in CommitsOf(chain[k].id)
            /\ dispatchLog' = Append(dispatchLog, chain[k].n)]_vars
  /\ [][(shellCalls' # shellCalls \/ buildOutput' # buildOutput \/ fileErrors' # fileErrors) =>
          \E k \in InFlight : chain' = RemoveAt(chain, k)]_vars
  /\ [][procs' # procs =>
          \/ procs' \subseteq procs
          \/ \E k \in ExecItems : ~chain[k].active /\ chain'[k].active]_vars

\* C20 witness: an action was registered, its signal fired, its content was
\* replaced and it was aborted, and no strategy has run.
C20_Witness ==
  /\ lastCall.op = "update"
  /\ aborted[lastCall.id]
  /\ chain = <<>>
  /\ commitLog = <<>>
  /\ dispatchLog = <<>>
  /\ fileErrors = {}

====
